---- MODULE Spec2Model ----
(***************************************************************************)
(* Model of the Nickel FFI boundary (rust/nickel-jl/src/lib.rs): the two   *)
(* evaluation entry points, the thread-local error slot, the release       *)
(* operations and the binary encoder encode_term.                          *)
(*                                                                         *)
(* Representation choices                                                  *)
(*  - A byte string is a sequence of bytes 0..255.  A string may also      *)
(*    carry a bulk tail of `blocks` blocks of BlockSize filler bytes, so   *)
(*    that byte lengths of 2^32 and more exist in the model; inside a      *)
(*    Vec<u8> such a tail is one negative element -blocks.                 *)
(*  - A usize is a pair <<q, r>> standing for q * BlockSize + r.           *)
(*  - A Number is a sign and the set of positions of the one-bits of its   *)
(*    magnitude (position p is worth 2^p, negative positions are the       *)
(*    fractional part); an f64 is the same with at most 53 significant     *)
(*    bits.                                                                *)
(*  - Option<T> is a sequence of length at most one.                       *)
(*  - A message is a sequence of parts; a part is literal text of the      *)
(*    source (lit) or bytes produced at run time (raw).                    *)
(***************************************************************************)
EXTENDS Integers, Sequences, FiniteSets, TLC

VARIABLES LAST_ERROR, heap, last, pending, held, failedOn

vars == <<LAST_ERROR, heap, last, pending, held, failedOn>>

----------------------------------------------------------------------------
(* Bounds *)

MaxBits == 3
MaxStrChars == 2
MaxArrayLen == 2
MaxFields == 2
MaxLive == 2

----------------------------------------------------------------------------
(* Type tags for the binary protocol *)

TYPE_NULL == 0
TYPE_BOOL == 1
TYPE_INT == 2
TYPE_FLOAT == 3
TYPE_STRING == 4
TYPE_ARRAY == 5
TYPE_RECORD == 6
TYPE_ENUM == 7

----------------------------------------------------------------------------
(* usize values and byte strings *)

BlockSize == 2 ^ 16

Byte == 0..255

Wide(n) == <<n \div BlockSize, n % BlockSize>>

WideAdd(a, b) ==
    <<a[1] + b[1] + ((a[2] + b[2]) \div BlockSize), (a[2] + b[2]) % BlockSize>>

(* the blocks of the bulk tails at the positions I of v *)
RECURSIVE BulkSum(_, _)
BulkSum(v, I) ==
    IF I = {} THEN 0
    ELSE LET i == CHOOSE j \in I : TRUE IN -v[i] + BulkSum(v, I \ {i})

(* Vec::len() *)
VecLen(v) ==
    LET bulk == {i \in DOMAIN v : v[i] < 0}
    IN  WideAdd(<<BulkSum(v, bulk), 0>>, Wide(Len(v) - Cardinality(bulk)))

(* `len as u32` followed by to_le_bytes(): the low 32 bits, low byte first *)
U32LeBytes(w) ==
    <<w[2] % 256, w[2] \div 256, w[1] % 256, (w[1] \div 256) % 256>>

(* the bytes of a string: its head, then its bulk tail *)
StrBytes(s) ==
    s.head \o (IF s.blocks = 0 THEN <<>> ELSE <<-(s.blocks)>>)

StrLen(s) == <<s.blocks, Len(s.head)>>

----------------------------------------------------------------------------
(* Numbers: rounding to f64, the casts between i64 and f64, byte layouts *)

Max(S) == -(CHOOSE m \in {-p : p \in S} : \A q \in S : m <= -q)

Pow2(k) == 2 ^ k

(* add 2^k to the magnitude S *)
AddBit(S, k) ==
    LET j == -Max({-c : c \in (k..(k + Cardinality(S))) \ S})
    IN  (S \ (k..(j - 1))) \cup {j}

(* magnitude comparison A <= B *)
MagLeq(A, B) ==
    \/ A = B
    \/ Max((A \ B) \cup (B \ A)) \in B

NumLeq(x, y) ==
    IF x.neg /\ ~y.neg THEN TRUE
    ELSE IF ~x.neg /\ y.neg THEN x.bits = {} /\ y.bits = {}
    ELSE IF x.neg THEN MagLeq(y.bits, x.bits)
    ELSE MagLeq(x.bits, y.bits)

(* f64::rounding_from(n, RoundingMode::Nearest): 53 significant bits,     *)
(* ties to even                                                           *)
RoundF64(n) ==
    IF n.bits = {} THEN [neg |-> n.neg, bits |-> {}]
    ELSE LET top == Max(n.bits)
             cut == top - 52
             kept == {p \in n.bits : p >= cut}
             half == (cut - 1) \in n.bits
             sticky == \E p \in n.bits : p < cut - 1
             odd == cut \in n.bits
         IN  [neg |-> n.neg,
              bits |-> IF half /\ (sticky \/ odd) THEN AddBit(kept, cut) ELSE kept]

I64_MIN == [neg |-> TRUE, bits |-> {63}]
I64_MAX == [neg |-> FALSE, bits |-> 0..62]

(* `i64::MIN as f64` and `i64::MAX as f64` *)
I64AsF64(i) == RoundF64(i)
I64_MIN_F64 == I64AsF64(I64_MIN)
I64_MAX_F64 == I64AsF64(I64_MAX)

Fract0(f) == \A p \in f.bits : p >= 0

(* `f as i64`: truncate toward zero, saturate at the ends of the range *)
F64AsI64(f) ==
    LET t == [neg |-> f.neg /\ \E p \in f.bits : p >= 0,
              bits |-> {p \in f.bits : p >= 0}]
    IN  IF ~NumLeq(t, I64_MAX) THEN I64_MAX
        ELSE IF ~NumLeq(I64_MIN, t) THEN I64_MIN
        ELSE t

(* the byte made of bit positions 8i .. 8i+7 of a 64-bit pattern *)
RECURSIVE BitsByteFrom(_, _, _)
BitsByteFrom(B, i, k) ==
    IF k = 8 THEN 0
    ELSE (IF (8 * i + k) \in B THEN Pow2(k) ELSE 0) + BitsByteFrom(B, i, k + 1)

LeBytes64(B) == [i \in 1..8 |-> BitsByteFrom(B, i - 1, 0)]

(* i64::to_le_bytes: two's complement *)
I64Pattern(i) ==
    IF i.neg THEN AddBit((0..63) \ i.bits, 0) \cap (0..63) ELSE i.bits

I64LeBytes(i) == LeBytes64(I64Pattern(i))

(* f64::to_le_bytes: sign, biased exponent, 52 fraction bits *)
F64Pattern(f) ==
    IF f.bits = {} THEN {}
    ELSE LET top == Max(f.bits)
             e == top + 1023
         IN  (IF f.neg THEN {63} ELSE {})
             \cup {52 + i : i \in {j \in 0..10 : (e \div Pow2(j)) % 2 = 1}}
             \cup {p - (top - 52) : p \in {q \in f.bits : q < top}}

F64LeBytes(f) == LeBytes64(F64Pattern(f))

----------------------------------------------------------------------------
(* Messages *)

Lit(s) == [lit |-> s, raw |-> <<>>]
Raw(b) == [lit |-> "", raw |-> b]

MsgEmpty(m) == \A i \in DOMAIN m : m[i].lit = "" /\ m[i].raw = <<>>

(* an interior NUL byte can only come from run-time bytes *)
HasNul(m) == \E i \in DOMAIN m : \E j \in DOMAIN m[i].raw : m[i].raw[j] = 0

None == <<>>
Some(v) == <<v>>

----------------------------------------------------------------------------
(* Value trees (nickel_lang_core::term::Term after full evaluation) *)

Null == [t |-> "Null"]
Bool(b) == [t |-> "Bool", b |-> b]
Num(neg, bits) == [t |-> "Num", neg |-> neg, bits |-> bits]
Str(head, blocks) == [t |-> "Str", head |-> head, blocks |-> blocks]
Array(elems) == [t |-> "Array", elems |-> elems]
Record(fields) == [t |-> "Record", fields |-> fields]
Enum(tag) == [t |-> "Enum", tag |-> tag]
EnumVariant(tag, arg) == [t |-> "EnumVariant", tag |-> tag, arg |-> arg]
Other(dbg) == [t |-> "Other", dbg |-> dbg]

(* a record field: its name and its Option<RichTerm> value *)
Field(key, value) == [key |-> key, value |-> value]

Ok(buf) == [ok |-> TRUE, buf |-> buf, err |-> <<>>]
Err(buf, msg) == [ok |-> FALSE, buf |-> buf, err |-> msg]

(* Term::Num *)
encode_num_BigEndian(n, buffer) ==
    LET f == RoundF64(n)
        rev(b) == [i \in 1..8 |-> b[9 - i]]
    IN  IF Fract0(f) /\ NumLeq(I64_MIN_F64, f) /\ NumLeq(f, I64_MAX_F64)
        THEN buffer \o <<TYPE_INT>> \o rev(I64LeBytes(F64AsI64(f)))
        ELSE buffer \o <<TYPE_FLOAT>> \o F64LeBytes(f)

encode_num(n, buffer) ==
    LET f == RoundF64(n)
    IN  IF Fract0(f) /\ NumLeq(I64_MIN_F64, f) /\ NumLeq(f, I64_MAX_F64)
        THEN buffer \o <<TYPE_INT>> \o I64LeBytes(F64AsI64(f))
        ELSE buffer \o <<TYPE_FLOAT>> \o F64LeBytes(f)

(* Term::Str *)
encode_str(s, buffer) ==
    buffer \o <<TYPE_STRING>> \o U32LeBytes(StrLen(s)) \o StrBytes(s)

(* Term::Enum *)
encode_enum_NoFlag(tag, buffer) ==
    buffer \o <<TYPE_ENUM>> \o U32LeBytes(Wide(Len(tag))) \o tag

encode_enum(tag, buffer) ==
    buffer \o <<TYPE_ENUM>> \o U32LeBytes(Wide(Len(tag))) \o tag \o <<0>>

RECURSIVE encode_term(_, _), encode_elems(_, _, _), encode_fields(_, _, _)

encode_elems_Rev(elems, i, buffer) ==
    IF i > Len(elems) THEN Ok(buffer)
    ELSE LET r == encode_term(elems[Len(elems) + 1 - i], buffer)
         IN  IF r.ok THEN encode_elems(elems, i + 1, r.buf) ELSE r

(* for elem in arr.iter() { encode_term(elem, buffer)?; } *)
encode_elems(elems, i, buffer) ==
    IF i > Len(elems) THEN Ok(buffer)
    ELSE LET r == encode_term(elems[i], buffer)
         IN  IF r.ok THEN encode_elems(elems, i + 1, r.buf) ELSE r

encode_fields_NoNull(fields, i, buffer) ==
    IF i > Len(fields) THEN Ok(buffer)
    ELSE LET key_bytes == fields[i].key
             b1 == buffer \o U32LeBytes(Wide(Len(key_bytes))) \o key_bytes
             r == IF fields[i].value # None
                  THEN encode_term(fields[i].value[1], b1)
                  ELSE Ok(b1)
         IN  IF r.ok THEN encode_fields(fields, i + 1, r.buf) ELSE r

(* for (key, field) in fields { ... } *)
encode_fields(fields, i, buffer) ==
    IF i > Len(fields) THEN Ok(buffer)
    ELSE LET key_bytes == fields[i].key
             b1 == buffer \o U32LeBytes(Wide(Len(key_bytes))) \o key_bytes
             r == IF fields[i].value # None
                  THEN encode_term(fields[i].value[1], b1)
                  ELSE Ok(b1 \o <<TYPE_NULL>>)
         IN  IF r.ok THEN encode_fields(fields, i + 1, r.buf) ELSE r

encode_term_NullEmpty(term, buffer) ==
    CASE term.t = "Null" -> Ok(buffer)
      [] term.t = "Bool" -> Ok(buffer \o <<TYPE_BOOL, IF term.b THEN 1 ELSE 0>>)
      [] term.t = "Num" -> Ok(encode_num(term, buffer))
      [] term.t = "Str" -> Ok(encode_str(term, buffer))
      [] term.t = "Array" ->
            encode_elems(term.elems, 1,
                buffer \o <<TYPE_ARRAY>> \o U32LeBytes(Wide(Len(term.elems))))
      [] term.t = "Record" ->
            encode_fields(term.fields, 1,
                buffer \o <<TYPE_RECORD>> \o U32LeBytes(Wide(Len(term.fields))))
      [] term.t = "Enum" -> Ok(encode_enum(term.tag, buffer))
      [] term.t = "EnumVariant" ->
            encode_term(term.arg,
                buffer \o <<TYPE_ENUM>> \o U32LeBytes(Wide(Len(term.tag)))
                       \o term.tag \o <<1>>)
      [] OTHER ->
            Err(buffer, <<Lit("Unsupported term type for native encoding: "),
                          Lit(term.dbg)>>)

encode_term(term, buffer) ==
    CASE term.t = "Null" -> Ok(buffer \o <<TYPE_NULL>>)
      [] term.t = "Bool" -> Ok(buffer \o <<TYPE_BOOL, IF term.b THEN 1 ELSE 0>>)
      [] term.t = "Num" -> Ok(encode_num(term, buffer))
      [] term.t = "Str" -> Ok(encode_str(term, buffer))
      [] term.t = "Array" ->
            encode_elems(term.elems, 1,
                buffer \o <<TYPE_ARRAY>> \o U32LeBytes(Wide(Len(term.elems))))
      [] term.t = "Record" ->
            encode_fields(term.fields, 1,
                buffer \o <<TYPE_RECORD>> \o U32LeBytes(Wide(Len(term.fields))))
      [] term.t = "Enum" -> Ok(encode_enum(term.tag, buffer))
      [] term.t = "EnumVariant" ->
            encode_term(term.arg,
                buffer \o <<TYPE_ENUM>> \o U32LeBytes(Wide(Len(term.tag)))
                       \o term.tag \o <<1>>)
      [] OTHER ->
            Err(buffer, <<Lit("Unsupported term type for native encoding: "),
                          Lit(term.dbg)>>)

----------------------------------------------------------------------------
(* CStr::from_ptr(code).to_str(): UTF-8 validation of the source bytes *)

InRange(b, lo, hi) == lo <= b /\ b <= hi

(* width of the sequence a lead byte announces, 0 for an invalid lead *)
Utf8Width(b) ==
    IF b < 128 THEN 1
    ELSE IF InRange(b, 194, 223) THEN 2
    ELSE IF InRange(b, 224, 239) THEN 3
    ELSE IF InRange(b, 240, 244) THEN 4
    ELSE 0

(* the range allowed for the second byte after lead byte b *)
Utf8Second(b, c) ==
    IF b = 224 THEN InRange(c, 160, 191)
    ELSE IF b = 237 THEN InRange(c, 128, 159)
    ELSE IF b = 240 THEN InRange(c, 144, 191)
    ELSE IF b = 244 THEN InRange(c, 128, 143)
    ELSE InRange(c, 128, 191)

Utf8Ok == [ok |-> TRUE, valid_up_to |-> 0, error_len |-> None]
Utf8Err(upto, elen) == [ok |-> FALSE, valid_up_to |-> upto, error_len |-> elen]

RECURSIVE Utf8From(_, _)
Utf8From(bytes, i) ==
    IF i > Len(bytes) THEN Utf8Ok
    ELSE LET w == Utf8Width(bytes[i])
             n == Len(bytes)
         IN  IF w = 0 THEN Utf8Err(i - 1, Some(1))
             ELSE IF w = 1 THEN Utf8From(bytes, i + 1)
             ELSE IF i + 1 > n THEN Utf8Err(i - 1, None)
             ELSE IF ~Utf8Second(bytes[i], bytes[i + 1]) THEN Utf8Err(i - 1, Some(1))
             ELSE IF w = 2 THEN Utf8From(bytes, i + 2)
             ELSE IF i + 2 > n THEN Utf8Err(i - 1, None)
             ELSE IF ~InRange(bytes[i + 2], 128, 191) THEN Utf8Err(i - 1, Some(2))
             ELSE IF w = 3 THEN Utf8From(bytes, i + 3)
             ELSE IF i + 3 > n THEN Utf8Err(i - 1, None)
             ELSE IF ~InRange(bytes[i + 3], 128, 191) THEN Utf8Err(i - 1, Some(3))
             ELSE Utf8From(bytes, i + 4)

to_str_AcceptAll(bytes) == Utf8Ok

to_str(bytes) == Utf8From(bytes, 1)

(* decimal text of a small index *)
RECURSIVE Dec(_)
Dec(n) == IF n < 10 THEN <<48 + n>> ELSE Dec(n \div 10) \o <<48 + (n % 10)>>

(* format!("Invalid UTF-8 in input: {}", e) with Utf8Error's Display *)
Utf8Message(e) ==
    IF e.error_len # None
    THEN <<Lit("Invalid UTF-8 in input: "), Lit("invalid utf-8 sequence of "),
           Raw(Dec(e.error_len[1])), Lit(" bytes from index "),
           Raw(Dec(e.valid_up_to))>>
    ELSE <<Lit("Invalid UTF-8 in input: "),
           Lit("incomplete utf-8 byte sequence from index "),
           Raw(Dec(e.valid_up_to))>>

----------------------------------------------------------------------------
(* What the external evaluator and formatter yield on a source text:      *)
(*   source_err  Program::new_from_source fails, diag is its text         *)
(*   eval_err    eval_full_for_export fails, diag is report_as_str's text *)
(*   ser_err     serialize::to_string fails, diag is its Debug text       *)
(*   value       a fully evaluated tree, json is its JSON text            *)

Ext(kind, diag, tree, json) ==
    [kind |-> kind, diag |-> diag, tree |-> tree, json |-> json]

(* Result<String, String> of eval_nickel_json *)
eval_nickel_json(ext) ==
    CASE ext.kind = "source_err" -> Err(<<>>, <<Lit("Parse error: "), Raw(ext.diag)>>)
      [] ext.kind = "eval_err" -> Err(<<>>, <<Raw(ext.diag)>>)
      [] ext.kind = "ser_err" -> Err(<<>>, <<Lit("Serialization error: "), Raw(ext.diag)>>)
      [] OTHER -> Ok(ext.json)

(* Result<Vec<u8>, String> of eval_nickel_native; buf of an Err is the    *)
(* local Vec at the moment it is dropped                                  *)
eval_nickel_native_KeepPartial(ext) ==
    CASE ext.kind = "source_err" -> Err(<<>>, <<Lit("Parse error: "), Raw(ext.diag)>>)
      [] ext.kind = "eval_err" -> Err(<<>>, <<Raw(ext.diag)>>)
      [] OTHER -> Ok(encode_term(ext.tree, <<>>).buf)

eval_nickel_native(ext) ==
    CASE ext.kind = "source_err" -> Err(<<>>, <<Lit("Parse error: "), Raw(ext.diag)>>)
      [] ext.kind = "eval_err" -> Err(<<>>, <<Raw(ext.diag)>>)
      [] OTHER -> encode_term(ext.tree, <<>>)

----------------------------------------------------------------------------
(* State                                                                   *)
(*   LAST_ERROR  the thread-local Option<CString>, one per thread          *)
(*   heap        the live allocations handed out by the boundary           *)
(*   last        the most recent boundary call: arguments, what it         *)
(*               returned, whether the evaluator ran                       *)
(*   pending     an input drawn at start for the one-call specification    *)
(*   held        the caller's side: the results it was handed and has not  *)
(*               released yet                                              *)
(*   failedOn    the threads on which an evaluation call has failed        *)

Threads == {"A", "B"}

Ptrs == 1..MaxLive

FreePtrs == Ptrs \ DOMAIN heap

NoPtr == None

CallRec(op, t, code, ext, failed, msg, ptr, len, bytes, view) ==
    [op |-> op, thread |-> t, code |-> code, ext |-> ext, failed |-> failed,
     msg |-> msg, ptr |-> ptr, len |-> len, bytes |-> bytes, view |-> view]

NoCall == CallRec("none", "A", None, None, FALSE, None, NoPtr, <<0, 0>>, <<>>, None)

(* CString::new(msg).ok() *)
CStringNew(msg) == IF HasNul(msg) THEN None ELSE Some(msg)

set_error_Shared(t, msg) ==
    LAST_ERROR' = [u \in Threads |-> CStringNew(msg)]

set_error(t, msg) ==
    LAST_ERROR' = [LAST_ERROR EXCEPT ![t] = CStringNew(msg)]

(* a failure return: message recorded, sentinel handed back *)
Fail(op, t, code, ext, msg) ==
    /\ set_error(t, msg)
    /\ heap' = heap
    /\ last' = CallRec(op, t, code, ext, TRUE, Some(msg), NoPtr, <<0, 0>>, <<>>, None)

HeapPut(p, kind, len) ==
    [q \in DOMAIN heap \cup {p} |->
        IF q = p THEN [kind |-> kind, len |-> len] ELSE heap[q]]

HeapDrop(p) == [q \in DOMAIN heap \ {p} |-> heap[q]]

nickel_eval_string_ClearOnOk(t, code, ext) ==
    IF code = None
    THEN Fail("eval_string", t, code, None,
              <<Lit("Null pointer passed to nickel_eval_string")>>)
    ELSE LET u == to_str(code[1]) IN
    IF ~u.ok
    THEN Fail("eval_string", t, code, None, Utf8Message(u))
    ELSE \E r \in {eval_nickel_json(ext)} :
    IF r.ok
    THEN IF \E j \in DOMAIN r.buf : r.buf[j] = 0
         THEN Fail("eval_string", t, code, Some(ext),
                   <<Lit("Result contains null byte: "),
                     Lit("nul byte found in provided data at position: "),
                     Raw(Dec((CHOOSE j \in DOMAIN r.buf : r.buf[j] = 0
                                 /\ \A k \in 1..(j - 1) : r.buf[k] # 0) - 1))>>)
         ELSE \E p \in FreePtrs :
                /\ heap' = HeapPut(p, "CString", Wide(Len(r.buf) + 1))
                /\ LAST_ERROR' = [LAST_ERROR EXCEPT ![t] = None]
                /\ last' = CallRec("eval_string", t, code, Some(ext), FALSE, None,
                                   Some(p), Wide(Len(r.buf)), r.buf, None)
    ELSE Fail("eval_string", t, code, Some(ext), r.err)

nickel_eval_string(t, code, ext) ==
    IF code = None
    THEN Fail("eval_string", t, code, None,
              <<Lit("Null pointer passed to nickel_eval_string")>>)
    ELSE LET u == to_str(code[1]) IN
    IF ~u.ok
    THEN Fail("eval_string", t, code, None, Utf8Message(u))
    ELSE \E r \in {eval_nickel_json(ext)} :
    IF r.ok
    THEN IF \E j \in DOMAIN r.buf : r.buf[j] = 0
         THEN Fail("eval_string", t, code, Some(ext),
                   <<Lit("Result contains null byte: "),
                     Lit("nul byte found in provided data at position: "),
                     Raw(Dec((CHOOSE j \in DOMAIN r.buf : r.buf[j] = 0
                                 /\ \A k \in 1..(j - 1) : r.buf[k] # 0) - 1))>>)
         ELSE \E p \in FreePtrs :
                /\ heap' = HeapPut(p, "CString", Wide(Len(r.buf) + 1))
                /\ LAST_ERROR' = LAST_ERROR
                /\ last' = CallRec("eval_string", t, code, Some(ext), FALSE, None,
                                   Some(p), Wide(Len(r.buf)), r.buf, None)
    ELSE Fail("eval_string", t, code, Some(ext), r.err)

nickel_eval_native(t, code, ext) ==
    IF code = None
    THEN Fail("eval_native", t, code, None,
              <<Lit("Null pointer passed to nickel_eval_native")>>)
    ELSE LET u == to_str(code[1]) IN
    IF ~u.ok
    THEN Fail("eval_native", t, code, None, Utf8Message(u))
    ELSE \E r \in {eval_nickel_native(ext)} :
    IF r.ok
    THEN \E p \in FreePtrs :
            /\ heap' = HeapPut(p, "Box", VecLen(r.buf))
            /\ LAST_ERROR' = LAST_ERROR
            /\ last' = CallRec("eval_native", t, code, Some(ext), FALSE, None,
                               Some(p), VecLen(r.buf), r.buf, None)
    ELSE Fail("eval_native", t, code, Some(ext), r.err)

nickel_get_error(t) ==
    /\ last' = CallRec("get_error", t, None, None, FALSE, None, NoPtr, <<0, 0>>,
                       <<>>, LAST_ERROR[t])
    /\ UNCHANGED <<LAST_ERROR, heap>>

nickel_free_string_NullResets(t, ptr) ==
    /\ heap' = IF ptr # None THEN HeapDrop(ptr[1]) ELSE heap
    /\ last' = CallRec("free_string", t, None, None, FALSE, None, ptr, <<0, 0>>,
                       <<>>, None)
    /\ LAST_ERROR' = IF ptr = None THEN [LAST_ERROR EXCEPT ![t] = None] ELSE LAST_ERROR

nickel_free_string(t, ptr) ==
    /\ heap' = IF ptr # None THEN HeapDrop(ptr[1]) ELSE heap
    /\ last' = CallRec("free_string", t, None, None, FALSE, None, ptr, <<0, 0>>,
                       <<>>, None)
    /\ UNCHANGED LAST_ERROR

nickel_free_buffer_Leak(t, data, len) ==
    /\ heap' = heap
    /\ last' = CallRec("free_buffer", t, None, None, FALSE, None, data, len,
                       <<>>, None)
    /\ UNCHANGED LAST_ERROR

nickel_free_buffer(t, data, len) ==
    /\ heap' = IF data # None /\ len # <<0, 0>> THEN HeapDrop(data[1]) ELSE heap
    /\ last' = CallRec("free_buffer", t, None, None, FALSE, None, data, len,
                       <<>>, None)
    /\ UNCHANGED LAST_ERROR

----------------------------------------------------------------------------
(* Inputs *)

SeqsUpTo(S, n) == UNION {[1..k -> S] : k \in 0..n}

RECURSIVE Concat(_)
Concat(ss) == IF ss = <<>> THEN <<>> ELSE Head(ss) \o Concat(Tail(ss))

(* source arguments: the null pointer, or the bytes of a C string: two    *)
(* texts ("A", "e" with an acute accent) and three byte strings that are  *)
(* not UTF-8 (a lone lead byte, a lone continuation byte, an invalid byte *)
(* after a valid prefix)                                                  *)
CodeArgs ==
    {None, Some(<<65>>), Some(<<195, 169>>),
     Some(<<195>>), Some(<<169>>), Some(<<65, 255>>)}

(* diagnostics of the evaluator; a blame message may carry a NUL *)
PlainDiag == <<69>>
NulDiag == <<69, 0, 69>>

JsonTexts == {<<34, 195, 169, 34>>}

(* numbers: up to MaxBits one-bits at the interesting positions, and the  *)
(* ends of the i64 range                                                  *)
NumPositions == {-1, 0, 1, 9, 10, 52, 53, 54, 62, 63, 64}
NumInputs ==
    {Num(neg, bits) : neg \in BOOLEAN,
                      bits \in {B \in SUBSET NumPositions :
                                   B # {} /\ Cardinality(B) <= MaxBits}}
    \cup {Num(FALSE, {})}
    \cup {Num(neg, bits) : neg \in BOOLEAN, bits \in {0..62, 1..62, 0..63, 10..63}}

(* strings: up to MaxStrChars characters of 1, 2 and 4 bytes, and a bulk  *)
(* tail of 0, 2^16, 2^32 - 2^16, 2^32 or 2^32 + 2^16 bytes                *)
StrChars == {<<97>>, <<195, 169>>, <<240, 159, 140, 141>>}
StrHeads == {Concat(cs) : cs \in SeqsUpTo(StrChars, MaxStrChars)}
BulkBlocks == {0, 1, 65535, 65536, 65537}
StrInputs == {Str(h, b) : h \in StrHeads, b \in BulkBlocks}

Labels == {<<120>>, <<121, 121>>, <<122, 195, 169>>}

NestLeaves ==
    {Null, Bool(TRUE), Num(FALSE, {0}), Num(TRUE, {0, -1}), Str(<<195, 169>>, 0),
     Enum(<<120>>), Other("Fun")}

TinyLeaves == {Num(FALSE, {1}), Other("Fun")}

Injective(f) == \A i, j \in DOMAIN f : i # j => f[i] # f[j]

(* the composite trees over a set of element trees *)
ArraysOver(E, n) == {Array(es) : es \in SeqsUpTo(E, n)}

RecordsOver(E, n) ==
    {Record([i \in DOMAIN ks |-> Field(ks[i], vs[i])]) :
        <<ks, vs>> \in UNION {{kv \in [1..k -> Labels] \X [1..k -> {None} \cup {Some(e) : e \in E}] :
                                  Injective(kv[1])} : k \in 0..n}}

VariantsOver(E) == {EnumVariant(tag, e) : tag \in Labels, e \in E}

Level1 ==
    ArraysOver(NestLeaves, MaxArrayLen) \cup RecordsOver(NestLeaves, MaxFields)
    \cup VariantsOver(NestLeaves)

(* one composite wrapped once more, with a leaf before or after it *)
Level2 ==
    {Array(pre \o <<a>> \o post) :
        a \in Level1, pre \in SeqsUpTo(TinyLeaves, 1), post \in SeqsUpTo(TinyLeaves, 1)}
    \cup {Record(<<Field(k, Some(a))>>) : k \in {<<120>>}, a \in Level1}
    \cup {EnumVariant(tag, a) : tag \in {<<120>>}, a \in Level1}

EncTrees ==
    {Null, Bool(TRUE), Bool(FALSE), Other("Fun")} \cup NumInputs \cup StrInputs
    \cup {Enum(tag) : tag \in Labels} \cup Level1 \cup Level2

(* the trees of the call-sequence specification *)
ProtoTrees ==
    {Str(<<195, 169>>, 0), Array(<<Bool(TRUE), Other("Fun")>>)}

ExtString ==
    {Ext("source_err", PlainDiag, Null, <<>>), Ext("eval_err", PlainDiag, Null, <<>>),
     Ext("eval_err", NulDiag, Null, <<>>), Ext("ser_err", PlainDiag, Null, <<>>)}
    \cup {Ext("value", <<>>, Null, j) : j \in JsonTexts}

ExtNative ==
    {Ext("source_err", PlainDiag, Null, <<>>), Ext("eval_err", PlainDiag, Null, <<>>),
     Ext("eval_err", NulDiag, Null, <<>>)}
    \cup {Ext("value", <<>>, tree, <<>>) : tree \in ProtoTrees}

(* UTF-8 by its definition: a concatenation of encoded scalar values *)
Cont(b) == 128 <= b /\ b <= 191

IsScalar(c) ==
    CASE Len(c) = 1 -> c[1] <= 127
      [] Len(c) = 2 -> /\ 192 <= c[1] /\ c[1] <= 223 /\ Cont(c[2])
                       /\ (c[1] - 192) * 64 + (c[2] - 128) >= 128
      [] Len(c) = 3 -> /\ 224 <= c[1] /\ c[1] <= 239 /\ Cont(c[2]) /\ Cont(c[3])
                       /\ LET cp == (c[1] - 224) * 4096 + (c[2] - 128) * 64 + (c[3] - 128)
                          IN  cp >= 2048 /\ ~(55296 <= cp /\ cp <= 57343)
      [] Len(c) = 4 -> /\ 240 <= c[1] /\ c[1] <= 247 /\ Cont(c[2]) /\ Cont(c[3]) /\ Cont(c[4])
                       /\ LET cp == (c[1] - 240) * 262144 + (c[2] - 128) * 4096
                                    + (c[3] - 128) * 64 + (c[4] - 128)
                          IN  cp >= 65536 /\ cp <= 1114111
      [] OTHER -> FALSE

RECURSIVE ValidUtf8(_)
ValidUtf8(bytes) ==
    \/ bytes = <<>>
    \/ \E k \in 1..4 :
          /\ k <= Len(bytes)
          /\ IsScalar(SubSeq(bytes, 1, k))
          /\ ValidUtf8(SubSeq(bytes, k + 1, Len(bytes)))

(* a &str is UTF-8 by its type: the evaluator has an outcome of its own   *)
(* only on text; on anything else reading the source is what would fail   *)
ExtFor(code, exts) ==
    IF code # None /\ ValidUtf8(code[1]) THEN exts
    ELSE {Ext("source_err", PlainDiag, Null, <<>>)}

----------------------------------------------------------------------------
(* The boundary under arbitrary call sequences on two threads *)

Init ==
    /\ LAST_ERROR = [t \in Threads |-> None]
    /\ heap = <<>>
    /\ last = NoCall
    /\ pending = None
    /\ held = {}
    /\ failedOn = {}

(* a result as the caller holds it: which entry point returned it, the    *)
(* pointer and the length                                                 *)
Result(op, ptr, len) == [op |-> op, ptr |-> ptr, len |-> len]

(* the caller after an evaluation call: it keeps the result unless it is  *)
(* the sentinel (null pointer, length 0)                                  *)
Returned ==
    /\ held' = IF last'.ptr # None \/ (last'.op = "eval_native" /\ last'.len # <<0, 0>>)
               THEN held \cup {Result(last'.op, last'.ptr, last'.len)}
               ELSE held
    /\ failedOn' = IF last'.failed THEN failedOn \cup {last'.thread} ELSE failedOn

EvalString ==
    \E t \in Threads, code \in CodeArgs :
        \E ext \in ExtFor(code, ExtString) :
            nickel_eval_string(t, code, ext) /\ Returned /\ UNCHANGED pending

EvalNative ==
    \E t \in Threads, code \in CodeArgs :
        \E ext \in ExtFor(code, ExtNative) :
            nickel_eval_native(t, code, ext) /\ Returned /\ UNCHANGED pending

GetError ==
    \E t \in Threads : nickel_get_error(t) /\ UNCHANGED <<pending, held, failedOn>>

(* the caller releases a text it holds, once, or passes the null pointer *)
FreeString ==
    \E t \in Threads :
        \/ nickel_free_string(t, None) /\ UNCHANGED <<pending, held, failedOn>>
        \/ \E h \in {x \in held : x.op = "eval_string"} :
              /\ nickel_free_string(t, h.ptr)
              /\ held' = held \ {h}
              /\ UNCHANGED <<pending, failedOn>>

(* the caller releases a buffer it holds, once, or passes the sentinel    *)
(* buffer                                                                 *)
FreeBuffer ==
    \E t \in Threads :
        \/ nickel_free_buffer(t, None, <<0, 0>>) /\ UNCHANGED <<pending, held, failedOn>>
        \/ \E h \in {x \in held : x.op = "eval_native"} :
              /\ nickel_free_buffer(t, h.ptr, h.len)
              /\ held' = held \ {h}
              /\ UNCHANGED <<pending, failedOn>>

Next == EvalString \/ EvalNative \/ GetError \/ FreeString \/ FreeBuffer

Spec == Init /\ [][Next]_vars

----------------------------------------------------------------------------
(* One nickel_eval_native call on each tree of the bounded set *)

EncCode == Some(<<65>>)

InitEnc ==
    /\ LAST_ERROR = [t \in Threads |-> None]
    /\ heap = <<>>
    /\ last = NoCall
    /\ pending \in {Some(Ext("value", <<>>, tree, <<>>)) : tree \in EncTrees}
    /\ held = {}
    /\ failedOn = {}

CallPending ==
    /\ pending # None
    /\ nickel_eval_native("A", EncCode, pending[1])
    /\ Returned
    /\ pending' = None

(* the caller hands the buffer it holds to nickel_free_buffer *)
ReleaseHeld ==
    \E h \in held :
        /\ nickel_free_buffer("A", h.ptr, h.len)
        /\ held' = held \ {h}
        /\ UNCHANGED <<pending, failedOn>>

NextEnc == CallPending \/ ReleaseHeld

SpecEnc == InitEnc /\ [][NextEnc]_vars

----------------------------------------------------------------------------
(* Vocabulary of the properties *)

EvalOps == {"eval_string", "eval_native"}

(* the null text pointer / the buffer with null data and len 0 *)
Sentinel == last.ptr = None /\ last.len = <<0, 0>> /\ last.bytes = <<>>

----------------------------------------------------------------------------
(* C1: every failing eval_to_text / eval_to_binary call returns the       *)
(* sentinel, and the error slot of the calling thread then holds the      *)
(* non-empty message of that call, whatever the message text is.          *)
C1_FailureRecordsItsMessage ==
    (last.op \in EvalOps /\ last.failed) =>
        /\ Sentinel
        /\ LAST_ERROR[last.thread] = last.msg
        /\ ~MsgEmpty(last.msg[1])

(* C2: a null or non-UTF-8 source makes either entry point fail with the  *)
(* sentinel and a non-empty retrievable message, and the evaluator is not *)
(* invoked on that call.                                                  *)
C2_BadSourceRejectedBeforeEvaluation ==
    (last.op \in EvalOps /\ (last.code = None \/ ~ValidUtf8(last.code[1]))) =>
        /\ last.failed
        /\ Sentinel
        /\ last.ext = None
        /\ LAST_ERROR[last.thread] # None
        /\ ~MsgEmpty(LAST_ERROR[last.thread][1])

C2_Witness ==
    /\ last.op = "eval_native"
    /\ last.code # None
    /\ ~ValidUtf8(last.code[1])
    /\ last.failed
    /\ LAST_ERROR[last.thread] # None

(* C3: a successful eval_to_text / eval_to_binary call leaves the error   *)
(* slot of every thread as it was, so a message recorded by an earlier    *)
(* failure is still what last_error returns after later successes.        *)
C3_SuccessKeepsErrorSlot ==
    [][(last'.op \in EvalOps /\ ~last'.failed) => LAST_ERROR' = LAST_ERROR]_vars

C3_Witness ==
    /\ last.op \in EvalOps
    /\ ~last.failed
    /\ LAST_ERROR[last.thread] # None

----------------------------------------------------------------------------
(* Vocabulary of the encoder properties *)

(* the last call was nickel_eval_native on a tree of the given variant *)
NativeOn(variant) ==
    /\ last.op = "eval_native"
    /\ last.ext # None
    /\ last.ext[1].kind = "value"
    /\ last.ext[1].tree.t = variant

LastTree == last.ext[1].tree

Min(S) == -Max({-p : p \in S})

NumOf(x) == [neg |-> x.neg, bits |-> x.bits]

(* n is an integer of the signed 64-bit range *)
IsI64(n) == Fract0(n) /\ NumLeq(I64_MIN, NumOf(n)) /\ NumLeq(NumOf(n), I64_MAX)

(* n has at most 53 significant bits: it is a double *)
ExactF64(n) == n.bits = {} \/ Max(n.bits) - Min(n.bits) <= 52

(* reading 8 bytes as a little-endian two's-complement integer *)
DecodeI64Le(b) ==
    LET B == {8 * (i - 1) + k : i \in 1..8, k \in 0..7} \cap
             {q \in 0..63 : (b[(q \div 8) + 1] \div Pow2(q % 8)) % 2 = 1}
    IN  IF 63 \in B THEN [neg |-> TRUE, bits |-> AddBit((0..63) \ B, 0)]
        ELSE [neg |-> FALSE, bits |-> B]

(* reading 4 bytes as a little-endian unsigned count *)
DecodeU32Le(b) == <<b[3] + 256 * b[4], b[1] + 256 * b[2]>>

(* the 4-byte little-endian form of a small count *)
Le32(n) == <<n % 256, (n \div 256) % 256, (n \div 65536) % 256, n \div 16777216>>

RECURSIVE Supported(_)
Supported(tree) ==
    CASE tree.t = "Array" -> \A i \in DOMAIN tree.elems : Supported(tree.elems[i])
      [] tree.t = "Record" ->
            \A i \in DOMAIN tree.fields :
                tree.fields[i].value = None \/ Supported(tree.fields[i].value[1])
      [] tree.t = "EnumVariant" -> Supported(tree.arg)
      [] tree.t = "Other" -> FALSE
      [] OTHER -> TRUE

(* the encoding of a tree on its own *)
Encoding(tree) == encode_term(tree, <<>>).buf

Payload == SubSeq(last.bytes, 2, Len(last.bytes))

----------------------------------------------------------------------------
(* C4 as stated: every signed 64-bit integer n given as a Number is       *)
(* encoded as tag Int followed by 8 bytes that decode, little-endian      *)
(* two's complement, to n.                                                *)
C4_EveryI64RoundTrips ==
    (NativeOn("Num") /\ IsI64(LastTree)) =>
        /\ ~last.failed
        /\ Len(last.bytes) = 9
        /\ last.bytes[1] = TYPE_INT
        /\ DecodeI64Le(Payload) = NumOf(LastTree)

(* C4 amended: every signed 64-bit integer n that is exactly a double     *)
(* (at most 53 significant bits) is encoded as tag Int followed by 8      *)
(* bytes that decode, little-endian two's complement, to n.               *)
C4_ExactI64RoundTrips ==
    (NativeOn("Num") /\ IsI64(LastTree) /\ ExactF64(LastTree)) =>
        /\ ~last.failed
        /\ Len(last.bytes) = 9
        /\ last.bytes[1] = TYPE_INT
        /\ DecodeI64Le(Payload) = NumOf(LastTree)

C4_Witness ==
    /\ NativeOn("Num")
    /\ LastTree.neg
    /\ LastTree.bits = {10, 62}
    /\ ~last.failed
    /\ last.bytes[1] = TYPE_INT

(* C5: with f the nearest double of the Number, tag Int is emitted        *)
(* exactly when f is integral and within [-2^63, 2^63 - 1], with the      *)
(* integer equal to f as payload; otherwise tag Float with the bits of f. *)
C5_TagFollowsNarrowingPolicy ==
    NativeOn("Num") =>
        LET f == RoundF64(LastTree)
        IN  /\ ~last.failed
            /\ Len(last.bytes) = 9
            /\ IF Fract0(f) /\ NumLeq(I64_MIN, f) /\ NumLeq(f, I64_MAX)
               THEN last.bytes[1] = TYPE_INT /\ DecodeI64Le(Payload) = f
               ELSE last.bytes[1] = TYPE_FLOAT /\ Payload = F64LeBytes(f)

(* C6: every String s is encoded as tag 4, a 4-byte little-endian prefix  *)
(* equal to the byte length of s, then exactly the bytes of s.            *)
C6_StringLengthPrefixIsByteLength ==
    NativeOn("Str") =>
        /\ ~last.failed
        /\ last.bytes[1] = TYPE_STRING
        /\ DecodeU32Le(SubSeq(last.bytes, 2, 5)) = StrLen(LastTree)
        /\ SubSeq(last.bytes, 6, Len(last.bytes)) = StrBytes(LastTree)

(* C7: an Array of encodable values is encoded as tag 5, a 4-byte         *)
(* little-endian count equal to its length, then the encodings of its     *)
(* elements in their original order.                                      *)
C7_ArrayLayout ==
    (NativeOn("Array") /\ Supported(LastTree)) =>
        /\ ~last.failed
        /\ last.bytes = <<5>> \o Le32(Len(LastTree.elems))
                        \o Concat([i \in DOMAIN LastTree.elems |->
                                      Encoding(LastTree.elems[i])])

C7_Witness ==
    /\ NativeOn("Array")
    /\ ~last.failed
    /\ Len(LastTree.elems) = 2
    /\ LastTree.elems[1].t = "Array"
    /\ Len(LastTree.elems[1].elems) = 2
    /\ LastTree.elems[1].elems[1] # LastTree.elems[1].elems[2]

(* C8: a Record is encoded as tag 6, a 4-byte little-endian field count,  *)
(* then one (key length, key bytes, encoded value) triple per field in    *)
(* field order; a field without a value contributes the byte 0.           *)
C8_RecordLayout ==
    (NativeOn("Record") /\ Supported(LastTree)) =>
        /\ ~last.failed
        /\ last.bytes = <<6>> \o Le32(Len(LastTree.fields))
                        \o Concat([i \in DOMAIN LastTree.fields |->
                                      Le32(Len(LastTree.fields[i].key))
                                      \o LastTree.fields[i].key
                                      \o (IF LastTree.fields[i].value = None
                                          THEN <<0>>
                                          ELSE Encoding(LastTree.fields[i].value[1]))])

C8_Witness ==
    /\ NativeOn("Record")
    /\ ~last.failed
    /\ Len(LastTree.fields) = 2
    /\ LastTree.fields[1].value = None
    /\ LastTree.fields[2].value # None

(* C9: both enum shapes are tag 7, a 4-byte tag-name length and the       *)
(* tag-name bytes; a nullary tag then ends with the flag byte 0, a        *)
(* variant has the flag byte 1 followed by the encoding of its argument.  *)
C9_EnumLayout ==
    /\ NativeOn("Enum") =>
          /\ ~last.failed
          /\ last.bytes = <<7>> \o Le32(Len(LastTree.tag)) \o LastTree.tag \o <<0>>
    /\ (NativeOn("EnumVariant") /\ Supported(LastTree)) =>
          /\ ~last.failed
          /\ last.bytes = <<7>> \o Le32(Len(LastTree.tag)) \o LastTree.tag \o <<1>>
                          \o Encoding(LastTree.arg)

C9_Witness ==
    /\ NativeOn("EnumVariant")
    /\ ~last.failed
    /\ LastTree.arg.t = "Record"
    /\ Len(LastTree.arg.fields) = 2

(* C10: a tree holding a node without an encoding rule, at any depth and  *)
(* position, makes eval_to_binary fail as a whole: the sentinel buffer is *)
(* returned, nothing is allocated, and the error slot holds the           *)
(* unsupported-type message.                                              *)
C10_UnsupportedFailsWhole ==
    (last.op = "eval_native" /\ last.ext # None /\ last.ext[1].kind = "value"
       /\ ~Supported(LastTree)) =>
        /\ last.failed
        /\ Sentinel
        /\ DOMAIN heap = {}
        /\ LAST_ERROR[last.thread] # None
        /\ LAST_ERROR[last.thread][1][1].lit = "Unsupported term type for native encoding: "

C10_Witness ==
    /\ NativeOn("Array")
    /\ last.failed
    /\ Len(LastTree.elems) = 2
    /\ LastTree.elems[1].t = "Array"
    /\ LastTree.elems[2].t = "Other"

----------------------------------------------------------------------------
(* Ownership of the results *)

ReleaseOps == {"free_string", "free_buffer"}

(* the allocations other than p are what they were *)
OthersKept(p) == \A q \in DOMAIN heap \ {p} : q \in DOMAIN heap' /\ heap'[q] = heap[q]

(* C11: with a caller that hands each non-sentinel result to its matching *)
(* release operation exactly once, a successful eval call creates exactly *)
(* one new live allocation, a failing call creates none, a release        *)
(* destroys exactly the allocation it was given, which was live (nothing  *)
(* is destroyed twice), and once the caller holds no result no allocation *)
(* is live.                                                               *)
C11_OneAllocationPerResult ==
    [][/\ (last'.op \in EvalOps /\ ~last'.failed) =>
              \E p \in Ptrs \ DOMAIN heap :
                  /\ last'.ptr = Some(p)
                  /\ DOMAIN heap' = DOMAIN heap \cup {p}
                  /\ OthersKept(p)
       /\ (last'.op \in EvalOps /\ last'.failed) => heap' = heap
       /\ (last'.op \in ReleaseOps /\ (last'.ptr # None \/ last'.len # <<0, 0>>)) =>
              \E p \in DOMAIN heap :
                  /\ last'.ptr = Some(p)
                  /\ DOMAIN heap' = DOMAIN heap \ {p}
                  /\ OthersKept(p)
       /\ {h.ptr : h \in held'} = {Some(p) : p \in DOMAIN heap'}
       /\ (held' = {} => heap' = << >>)]_vars

(* a buffer has just been released, calls have failed on both threads and *)
(* the caller holds nothing                                               *)
C11_Witness ==
    /\ last.op = "free_buffer"
    /\ last.ptr # None
    /\ held = {}
    /\ heap = << >>
    /\ failedOn = Threads

(* C12: nickel_free_string on the null pointer and nickel_free_buffer on  *)
(* the sentinel buffer are no-ops wherever they occur: no allocation is   *)
(* freed or changed, the results the caller holds stay live, no error     *)
(* slot changes and no failure is raised.                                 *)
C12_NullReleaseIsNoOp ==
    [][((last'.op = "free_string" /\ last'.ptr = None)
        \/ (last'.op = "free_buffer" /\ last'.ptr = None /\ last'.len = <<0, 0>>)) =>
          /\ heap' = heap
          /\ held' = held
          /\ LAST_ERROR' = LAST_ERROR
          /\ failedOn' = failedOn
          /\ ~last'.failed]_vars

C12_Witness ==
    /\ last.op = "free_buffer"
    /\ last.ptr = None
    /\ last.len = <<0, 0>>
    /\ \E h \in held : h.op = "eval_native"
    /\ \E h \in held : h.op = "eval_string"
    /\ LAST_ERROR[last.thread] # None

----------------------------------------------------------------------------
(* C13: the error slots are per thread.  In every step the slots of the   *)
(* threads other than the calling one stay as they were; the slot of the  *)
(* calling thread changes only in a failing call of that thread, and then *)
(* to what that call recorded; nickel_get_error returns the slot of its   *)
(* own thread; a thread on which no call has failed has an empty slot and *)
(* reads empty, whatever has failed on the other thread.                  *)
C13_ErrorSlotsArePerThread ==
    [][/\ \A u \in Threads \ {last'.thread} : LAST_ERROR'[u] = LAST_ERROR[u]
       /\ \/ LAST_ERROR'[last'.thread] = LAST_ERROR[last'.thread]
          \/ /\ last'.op \in EvalOps
             /\ last'.failed
             /\ LAST_ERROR'[last'.thread] \in {None, last'.msg}
       /\ last'.op = "get_error" => last'.view = LAST_ERROR[last'.thread]
       /\ \A u \in Threads \ failedOn' : LAST_ERROR'[u] = None
       /\ (last'.op = "get_error" /\ last'.thread \notin failedOn') =>
              last'.view = None]_vars

(* thread B reads empty while the slot of thread A holds a message *)
C13_Witness ==
    /\ last.op = "get_error"
    /\ last.thread = "B"
    /\ last.view = None
    /\ "B" \notin failedOn
    /\ LAST_ERROR["A"] # None

----------------------------------------------------------------------------
(* C15: a successful nickel_eval_native call returns non-null data and a  *)
(* length of at least 1, the first byte being a type tag, so the call     *)
(* returns the sentinel (null data, length 0) exactly when it fails; and  *)
(* nickel_free_buffer, given the buffer a successful call returned, frees *)
(* its allocation.                                                        *)
C15_SuccessIsNeverSentinel ==
    [][/\ last'.op = "eval_native" =>
              /\ last'.failed <=> (last'.ptr = None /\ last'.len = <<0, 0>>)
              /\ ~last'.failed =>
                    /\ last'.ptr # None
                    /\ last'.len # <<0, 0>>
                    /\ last'.len = VecLen(last'.bytes)
                    /\ last'.bytes # << >>
                    /\ last'.bytes[1] \in TYPE_NULL..TYPE_ENUM
                    /\ last'.ptr[1] \in DOMAIN heap'
       /\ (/\ last.op = "eval_native"
           /\ ~last.failed
           /\ last'.op = "free_buffer"
           /\ last'.ptr = last.ptr
           /\ last'.len = last.len) =>
              /\ last.ptr[1] \in DOMAIN heap
              /\ last.ptr[1] \notin DOMAIN heap']_vars

(* the one-byte buffer of Null has been returned and released *)
C15_Witness ==
    /\ last.op = "free_buffer"
    /\ last.ptr # None
    /\ last.len = <<0, 1>>
    /\ heap = << >>
    /\ held = {}

----------------------------------------------------------------------------
(* A reader of the wire layout: one encoded unit is a tag byte and the    *)
(* payload the layout table gives for that tag.  Decoding yields the      *)
(* value read and the index of the first byte after the unit.             *)

DNull == [d |-> "Null"]
DBool(b) == [d |-> "Bool", b |-> b]
DInt(i) == [d |-> "Int", neg |-> i.neg, bits |-> i.bits]
DFloat(f) == [d |-> "Float", neg |-> f.neg, bits |-> f.bits]
(* a string read: the bytes outside a bulk tail, and the byte length *)
DString(head, len) == [d |-> "String", head |-> head, len |-> len]
DArray(elems) == [d |-> "Array", elems |-> elems]
DRecord(fields) == [d |-> "Record", fields |-> fields]
DEnum(tag, arg) == [d |-> "Enum", tag |-> tag, arg |-> arg]

DOk(val, next) == [ok |-> TRUE, val |-> val, next |-> next]
DFail == [ok |-> FALSE, val |-> DNull, next |-> 0]

(* n bytes of layout are present at index i of v *)
Plain(v, i, n) == i + n - 1 <= Len(v) /\ \A j \in i..(i + n - 1) : v[j] >= 0

(* the number of bytes from index i up to a bulk tail or the end *)
PlainRun(v, i) ==
    LET stops == {j \in i..Len(v) : v[j] < 0}
    IN  IF stops = {} THEN Len(v) + 1 - i ELSE Min(stops) - i

(* reading 8 bytes as a little-endian IEEE-754 double *)
DecodeF64Le(b) ==
    LET B == {q \in 0..63 : (b[(q \div 8) + 1] \div Pow2(q % 8)) % 2 = 1}
        frac == {q \in B : q < 52}
        e == (b[7] \div 16) + 16 * (b[8] % 128)
    IN  IF e = 0
        THEN [neg |-> 63 \in B, bits |-> {q - 1074 : q \in frac}]
        ELSE [neg |-> 63 \in B,
              bits |-> {e - 1023} \cup {q + (e - 1023 - 52) : q \in frac}]

(* L bytes of content from index i: the bytes before a bulk tail, then    *)
(* the tail; a length that ends inside the tail leaves the reader there   *)
DecodeBytes(v, i, L) ==
    LET k == PlainRun(v, i)
        rem == IF L[2] >= k THEN <<L[1], L[2] - k>>
               ELSE <<L[1] - 1, L[2] + BlockSize - k>>
    IN  IF L[1] = 0 /\ L[2] <= k
        THEN DOk(DString(SubSeq(v, i, i + L[2] - 1), L), i + L[2])
        ELSE IF i + k > Len(v) THEN DFail
        ELSE IF rem = <<-v[i + k], 0>>
        THEN DOk(DString(SubSeq(v, i, i + k - 1), L), i + k + 1)
        ELSE IF rem[1] < -v[i + k]
        THEN DOk(DString(SubSeq(v, i, i + k - 1), L), i + k)
        ELSE DFail

RECURSIVE Decode(_, _), DecodeElems(_, _, _, _), DecodeFields(_, _, _, _)

(* n more encoded values from index i *)
DecodeElems(v, i, n, acc) ==
    IF n = 0 THEN DOk(DArray(acc), i)
    ELSE LET r == Decode(v, i)
         IN  IF r.ok THEN DecodeElems(v, r.next, n - 1, Append(acc, r.val))
             ELSE DFail

(* n more pairs of key length, key bytes and encoded value from index i *)
DecodeFields(v, i, n, acc) ==
    IF n = 0 THEN DOk(DRecord(acc), i)
    ELSE IF ~Plain(v, i, 4) THEN DFail
    ELSE LET key == DecodeBytes(v, i + 4, DecodeU32Le(SubSeq(v, i, i + 3)))
         IN  IF ~key.ok THEN DFail
             ELSE LET r == Decode(v, key.next)
                  IN  IF r.ok
                      THEN DecodeFields(v, r.next, n - 1,
                               Append(acc, [key |-> key.val.head, value |-> r.val]))
                      ELSE DFail

Decode(v, i) ==
    IF ~Plain(v, i, 1) THEN DFail
    ELSE CASE v[i] = TYPE_NULL -> DOk(DNull, i + 1)
      [] v[i] = TYPE_BOOL ->
            IF Plain(v, i + 1, 1) /\ v[i + 1] \in {0, 1}
            THEN DOk(DBool(v[i + 1] = 1), i + 2) ELSE DFail
      [] v[i] = TYPE_INT ->
            IF Plain(v, i + 1, 8)
            THEN DOk(DInt(DecodeI64Le(SubSeq(v, i + 1, i + 8))), i + 9) ELSE DFail
      [] v[i] = TYPE_FLOAT ->
            IF Plain(v, i + 1, 8)
            THEN DOk(DFloat(DecodeF64Le(SubSeq(v, i + 1, i + 8))), i + 9) ELSE DFail
      [] v[i] = TYPE_STRING ->
            IF Plain(v, i + 1, 4)
            THEN DecodeBytes(v, i + 5, DecodeU32Le(SubSeq(v, i + 1, i + 4)))
            ELSE DFail
      [] v[i] = TYPE_ARRAY ->
            IF Plain(v, i + 1, 4) /\ DecodeU32Le(SubSeq(v, i + 1, i + 4))[1] = 0
            THEN DecodeElems(v, i + 5, DecodeU32Le(SubSeq(v, i + 1, i + 4))[2], << >>)
            ELSE DFail
      [] v[i] = TYPE_RECORD ->
            IF Plain(v, i + 1, 4) /\ DecodeU32Le(SubSeq(v, i + 1, i + 4))[1] = 0
            THEN DecodeFields(v, i + 5, DecodeU32Le(SubSeq(v, i + 1, i + 4))[2], << >>)
            ELSE DFail
      [] v[i] = TYPE_ENUM ->
            IF ~Plain(v, i + 1, 4) THEN DFail
            ELSE LET tag == DecodeBytes(v, i + 5, DecodeU32Le(SubSeq(v, i + 1, i + 4)))
                 IN  IF ~tag.ok \/ ~Plain(v, tag.next, 1) THEN DFail
                     ELSE IF v[tag.next] = 0
                     THEN DOk(DEnum(tag.val.head, None), tag.next + 1)
                     ELSE IF v[tag.next] = 1
                     THEN LET r == Decode(v, tag.next + 1)
                          IN  IF r.ok THEN DOk(DEnum(tag.val.head, Some(r.val)), r.next)
                              ELSE DFail
                     ELSE DFail
      [] OTHER -> DFail

(* the value a tree stands for on the wire: numbers narrowed (nearest     *)
(* double; the integer if the double is integral and within the signed    *)
(* 64-bit range), a record field without a value read as Null             *)
RECURSIVE Narrowed(_)
Narrowed(tree) ==
    CASE tree.t = "Null" -> DNull
      [] tree.t = "Bool" -> DBool(tree.b)
      [] tree.t = "Num" ->
            LET f == RoundF64(tree)
            IN  IF Fract0(f) /\ NumLeq(I64_MIN, f) /\ NumLeq(f, I64_MAX)
                THEN DInt(f) ELSE DFloat(f)
      [] tree.t = "Str" -> DString(tree.head, StrLen(tree))
      [] tree.t = "Array" -> DArray([i \in DOMAIN tree.elems |-> Narrowed(tree.elems[i])])
      [] tree.t = "Record" ->
            DRecord([i \in DOMAIN tree.fields |->
                        [key |-> tree.fields[i].key,
                         value |-> IF tree.fields[i].value = None THEN DNull
                                   ELSE Narrowed(tree.fields[i].value[1])]])
      [] tree.t = "Enum" -> DEnum(tree.tag, None)
      [] tree.t = "EnumVariant" -> DEnum(tree.tag, Some(Narrowed(tree.arg)))
      [] OTHER -> DNull

(* C16: the bytes of a successful binary encode are exactly one encoded   *)
(* unit: reading the layout from the first byte stays within the reported *)
(* length, ends exactly at it, and yields the original tree with its      *)
(* numbers narrowed and its value-less record fields read as Null.        *)
C16_OneWellFormedUnit ==
    (last.op = "eval_native" /\ ~last.failed) =>
        \E r \in {Decode(last.bytes, 1)} :
            /\ r.ok
            /\ r.next = Len(last.bytes) + 1
            /\ r.val = Narrowed(LastTree)

====
